---- MODULE Spec2Model ----
(***************************************************************************)
(* A model of jtoolbox: the filesystem helpers of src/src/jtoolbox/files.py *)
(* (get_unique_filename, safe_rename, move_files_to_top), the older         *)
(* safe_rename of src/jtoolbox/files.py, and the h5_logger of               *)
(* src/jtoolbox/utils.py.  Every call is one step.                          *)
(*                                                                          *)
(* A file name is a sequence of characters, a path is a sequence of names   *)
(* (the components below the working directory), and a filesystem is a set  *)
(* of directories and a map from file paths to contents.  A file's content  *)
(* is the path it had in the initial tree, so contents are pairwise         *)
(* distinct and a file can be followed through a call.                      *)
(***************************************************************************)
EXTENDS Integers, Sequences, FiniteSets, TLC

VARIABLES
    fs,         \* the filesystem: [dirs |-> set of paths, files |-> [path -> content]]
    protected,  \* the files whose os.rename / os.unlink raise PermissionError
    order,      \* the order in which the filesystem enumerates names (scandir)
    pre,        \* the filesystem before the last call
    call,       \* the last call: its name and its arguments
    ret,        \* what the last call returned, raised and printed
    store,      \* the log file: [key -> [kind |-> ..., data |-> ...]]
    logged      \* per key, the values log_value stored since the key was absent

vars == <<fs, protected, order, pre, call, ret, store, logged>>

fsvars == <<fs, protected, order, pre, call, ret>>

logvars == <<store, logged>>

----------------------------------------------------------------------------
(* Names and paths *)

a == <<"a">>

b == <<"b">>

xt == <<"x", ".", "t">>

\* what get_unique_filename makes of x.t
x1 == <<"x", "(", "1", ")", ".", ".", "t">>

FileNames == {a, xt, x1}

\* the directories a tree of the model may hold; <<>> is the working directory
DirPaths == {<<>>, <<a>>, <<b>>, <<a, b>>}

\* the most files a tree of the model holds initially
MaxFiles == 2

Max(S) == CHOOSE x \in S : \A y \in S : y <= x

Min(S) == CHOOSE x \in S : \A y \in S : x <= y

Parent(p) == SubSeq(p, 1, Len(p) - 1)

Base(p) == p[Len(p)]

IsPrefix(p, q) == Len(p) <= Len(q) /\ SubSeq(q, 1, Len(p)) = p

\* p is strictly below directory d
Below(d, p) == Len(d) < Len(p) /\ IsPrefix(d, p)

Prefixes(p) == {SubSeq(p, 1, n) : n \in 0..Len(p)}

\* os.path.join(root, file) for a single relative component
join(root, file) == Append(root, file)

\* os.path.exists
exists(f, p) == p \in f.dirs \/ p \in DOMAIN f.files

\* os.path.isdir, Path.is_dir
is_dir(f, p) == p \in f.dirs

\* the names directly inside directory d
FilesIn(f, d) == {Base(p) : p \in {q \in DOMAIN f.files : Len(q) > 0 /\ Parent(q) = d}}

DirsIn(f, d) == {Base(p) : p \in {q \in f.dirs : Len(q) > 0 /\ Parent(q) = d}}

NamesOf(f) == {Base(p) : p \in {q \in f.dirs \cup DOMAIN f.files : Len(q) > 0}}

\* the permutations of a finite set, as sequences
Perms(S) ==
    {s \in [1..Cardinality(S) -> S] : \A i, j \in 1..Cardinality(S) : s[i] = s[j] => i = j}

RECURSIVE SetToSeq(_)
SetToSeq(S) ==
    IF S = {} THEN <<>>
    ELSE LET x == CHOOSE y \in S : TRUE IN <<x>> \o SetToSeq(S \ {x})

\* the names of S in the order the filesystem enumerates them; names made
\* during a call, which the order does not rank, come last
Listing(S, ord) ==
    LET InS(n) == n \in S
        ranked == {ord[i] : i \in 1..Len(ord)}
    IN  SelectSeq(ord, InS) \o SetToSeq(S \ ranked)

----------------------------------------------------------------------------
(* get_unique_filename *)

DigitChar == <<"0", "1", "2", "3", "4", "5", "6", "7", "8", "9">>

\* str(n) for n >= 0
RECURSIVE IntToStr(_)
IntToStr(n) ==
    IF n < 10 THEN <<DigitChar[n + 1]>>
    ELSE IntToStr(n \div 10) \o <<DigitChar[(n % 10) + 1]>>

\* os.path.splitext on the last component: the extension starts at the last
\* dot, unless only dots precede it
splitext(p) ==
    LET n == Base(p)
        dots == {i \in 1..Len(n) : n[i] = "."}
        dotIndex == IF dots = {} THEN 0 ELSE Max(dots)
        split == dotIndex > 0 /\ \E i \in 1..(dotIndex - 1) : n[i] # "."
    IN  IF split
        THEN [name |-> join(Parent(p), SubSeq(n, 1, dotIndex - 1)),
              ext |-> SubSeq(n, dotIndex, Len(n))]
        ELSE [name |-> p, ext |-> <<>>]

\* f"{name}({suffix}).{ext}"
SuffixedByFormat(name, suffix, ext) ==
    join(Parent(name), Base(name) \o <<"(">> \o IntToStr(suffix) \o <<")">> \o <<".">> \o ext)

RECURSIVE unique_loop(_, _, _, _)
unique_loop(f, name, ext, suffix) ==
    LET s == suffix + 1
        filepath == SuffixedByFormat(name, s, ext)
    IN  IF ~exists(f, filepath) THEN filepath ELSE unique_loop(f, name, ext, s)

\* a slip: the first suffixed name is returned without the existence check
get_unique_filename_unchecked(f, filepath) ==
    IF exists(f, filepath)
    THEN SuffixedByFormat(splitext(filepath).name, 1, splitext(filepath).ext)
    ELSE filepath

get_unique_filename(f, filepath) ==
    IF exists(f, filepath)
    THEN unique_loop(f, splitext(filepath).name, splitext(filepath).ext, 0)
    ELSE filepath

----------------------------------------------------------------------------
(* Initial trees *)

CandFiles == {join(d, n) : d \in DirPaths, n \in FileNames}

Closure(ps) == UNION {Prefixes(p) : p \in ps}

\* a tree: at most MaxFiles files, their ancestors, and possibly one more
\* directory; no path is both a file and a directory
Trees ==
    {[dirs |-> Closure({Parent(p) : p \in F} \cup E), files |-> [p \in F |-> p]] :
        <<F, E>> \in {<<F, E>> \in (SUBSET CandFiles) \X ({{}} \cup {{d} : d \in DirPaths}) :
                        /\ Cardinality(F) <= MaxFiles
                        /\ F \cap Closure({Parent(p) : p \in F} \cup E) = {}}}

NoCall == [op |-> "none"]

NoRet == [value |-> <<>>, raised |-> "none", printed |-> <<>>, failed |-> {}]

InitLog == store = <<>> /\ logged = <<>>

InitNamer ==
    /\ fs \in Trees
    /\ protected = {}
    /\ order = SetToSeq(NamesOf(fs))
    /\ pre = fs
    /\ call = NoCall
    /\ ret = NoRet
    /\ InitLog

\* get_unique_filename(filepath), called once on a tree
GetUniqueFilename ==
    /\ call = NoCall
    /\ \E filepath \in CandFiles \cup (DirPaths \ {<<>>}) :
          /\ call' = [op |-> "get_unique_filename", filepath |-> filepath]
          /\ ret' = [NoRet EXCEPT !.value = get_unique_filename(fs, filepath)]
    /\ pre' = fs
    /\ UNCHANGED <<fs, protected, order, logvars>>

NextNamer == GetUniqueFilename

SpecNamer == InitNamer /\ [][NextNamer]_vars

----------------------------------------------------------------------------
(* C3 *)

\* C3: get_unique_filename(p) returns a path that does not exist; it is p
\* when p does not exist, and differs from p when p exists.
UniqueNameIsFree ==
    call.op = "get_unique_filename" =>
        /\ ~exists(fs, ret.value)
        /\ ~exists(fs, call.filepath) => ret.value = call.filepath
        /\ exists(fs, call.filepath) => ret.value # call.filepath

\* the path exists, and so does its first suffixed name: the loop runs twice
UniqueNameLoopedTwice ==
    /\ call.op = "get_unique_filename"
    /\ exists(fs, call.filepath)
    /\ exists(fs, SuffixedByFormat(splitext(call.filepath).name, 1, splitext(call.filepath).ext))
    /\ ret.value = SuffixedByFormat(splitext(call.filepath).name, 2, splitext(call.filepath).ext)

----------------------------------------------------------------------------
(* C4 *)

\* <stem>(n)<ext>, the extension kept as it is
SuffixedAsSpecified(name, n, ext) ==
    join(Parent(name), Base(name) \o <<"(">> \o IntToStr(n) \o <<")">> \o ext)

\* C4: when p = <stem><ext> exists, get_unique_filename(p) is <stem>(n)<ext>
\* for the least n >= 1 for which that path does not exist.
UniqueNameIsStemNExt ==
    (call.op = "get_unique_filename" /\ exists(fs, call.filepath)) =>
        LET name == splitext(call.filepath).name
            ext == splitext(call.filepath).ext
            free == {n \in 1..(Cardinality(fs.dirs) + Cardinality(DOMAIN fs.files) + 1) :
                        ~exists(fs, SuffixedAsSpecified(name, n, ext))}
        IN  ret.value = SuffixedAsSpecified(name, Min(free), ext)

----------------------------------------------------------------------------
(* Filesystem primitives.  Each takes a step state                          *)
(* [fs, raised, printed] and returns the next one; raised is "none" or the  *)
(* name of the exception the primitive raises; failed collects the files    *)
(* whose rename or unlink was refused, for the claims to refer to.          *)

Start(f) == [fs |-> f, raised |-> "none", printed |-> <<>>, failed |-> {}]

Raise(st, e) == [st EXCEPT !.raised = e]

\* os.rename or os.unlink of a protected file
Refuse(st, src) == [st EXCEPT !.raised = "PermissionError", !.failed = @ \cup {src}]

\* print(...)
Report(st, line) == [st EXCEPT !.printed = Append(@, line)]

\* f.files without path p
Without(files, p) == [q \in (DOMAIN files) \ {p} |-> files[q]]

\* f.files with path p holding content c
With(files, p, c) == [q \in (DOMAIN files) \cup {p} |-> IF q = p THEN c ELSE files[q]]

\* os.rename(src, dst) for a file src: POSIX rename replaces a file at dst
os_rename_file(st, src, dst, prot) ==
    IF src \notin DOMAIN st.fs.files THEN Raise(st, "FileNotFoundError")
    ELSE IF dst = src THEN st
    ELSE IF src \in prot THEN Refuse(st, src)
    ELSE IF dst = <<>> \/ dst \in st.fs.dirs THEN Raise(st, "IsADirectoryError")
    ELSE IF Parent(dst) \in DOMAIN st.fs.files THEN Raise(st, "NotADirectoryError")
    ELSE IF Parent(dst) \notin st.fs.dirs THEN Raise(st, "FileNotFoundError")
    ELSE [st EXCEPT !.fs.files = With(Without(@, src), dst, st.fs.files[src])]

\* path p with its prefix src replaced by dst
Rebase(p, src, dst) == dst \o SubSeq(p, Len(src) + 1, Len(p))

\* os.rename(src, dst) for a directory src and a dst that does not exist:
\* the whole subtree moves
os_rename_dir(st, src, dst, prot) ==
    IF src = <<>> \/ dst = <<>> \/ IsPrefix(src, dst) THEN Raise(st, "OSError")
    ELSE IF Parent(dst) \in DOMAIN st.fs.files THEN Raise(st, "NotADirectoryError")
    ELSE IF Parent(dst) \notin st.fs.dirs THEN Raise(st, "FileNotFoundError")
    ELSE LET f == st.fs
             moved(p) == IF IsPrefix(src, p) THEN Rebase(p, src, dst) ELSE p
         IN  [st EXCEPT
                !.fs.dirs = {moved(d) : d \in f.dirs},
                !.fs.files = [q \in {moved(p) : p \in DOMAIN f.files} |->
                                 f.files[CHOOSE p \in DOMAIN f.files : moved(p) = q]]]

\* shutil.copy2(src, dst) followed by os.unlink(src): shutil.move's fallback
\* when os.rename raised OSError
copy_unlink(st, src, dst, prot) ==
    IF Parent(dst) \in DOMAIN st.fs.files THEN Raise(st, "NotADirectoryError")
    ELSE IF Parent(dst) \notin st.fs.dirs THEN Raise(st, "FileNotFoundError")
    ELSE LET copied == [st EXCEPT !.fs.files = With(@, dst, st.fs.files[src])]
         IN  IF src \in prot THEN Refuse(copied, src)
             ELSE [copied EXCEPT !.fs.files = Without(@, src)]

\* shutil.move(src, dst) for a file src
shutil_move(st, src, dst, prot) ==
    IF src \notin DOMAIN st.fs.files THEN Raise(st, "FileNotFoundError")
    ELSE LET real_dst == IF is_dir(st.fs, dst) THEN join(dst, Base(src)) ELSE dst
         IN  IF is_dir(st.fs, dst) /\ exists(st.fs, real_dst) THEN Raise(st, "shutil.Error")
             ELSE LET renamed == os_rename_file(st, src, real_dst, prot)
                  IN  IF renamed.raised = "none" THEN renamed
                      ELSE copy_unlink(st, src, real_dst, prot)

----------------------------------------------------------------------------
(* os.walk and shutil.rmtree *)

\* os.walk(top), top-down: the directories at and below top in the order
\* they are visited.  Neither walker below creates, moves or removes a
\* directory while it walks, so the visits are those of the tree at the start.
RECURSIVE walk_dirs(_, _, _)
RECURSIVE walk_each(_, _, _, _)
walk_dirs(f, top, ord) ==
    <<top>> \o walk_each(f, top, Listing(DirsIn(f, top), ord), ord)

walk_each(f, top, dirs, ord) ==
    IF dirs = <<>> THEN <<>>
    ELSE walk_dirs(f, join(top, Head(dirs)), ord) \o walk_each(f, top, Tail(dirs), ord)

\* shutil.rmtree(path): entries are removed in listing order, directories
\* recursively, and the first failure is raised
RECURSIVE rmtree(_, _, _, _)
RECURSIVE rmtree_entries(_, _, _, _, _)
rmtree(st, path, ord, prot) ==
    LET entries == Listing(DirsIn(st.fs, path) \cup FilesIn(st.fs, path), ord)
        emptied == rmtree_entries(st, path, entries, ord, prot)
    IN  IF emptied.raised # "none" THEN emptied
        ELSE [emptied EXCEPT !.fs.dirs = @ \ {path}]

rmtree_entries(st, path, entries, ord, prot) ==
    IF entries = <<>> \/ st.raised # "none" THEN st
    ELSE LET p == join(path, Head(entries))
             st1 == IF is_dir(st.fs, p) THEN rmtree(st, p, ord, prot)
                    ELSE IF p \in prot THEN Refuse(st, p)
                    ELSE [st EXCEPT !.fs.files = Without(@, p)]
         IN  rmtree_entries(st1, path, Tail(entries), ord, prot)

----------------------------------------------------------------------------
(* move_files_to_top *)

\* the body of "for file in files" for one file of directory root
mftt_file(st, dir_path, root, file, duplicate_suffix, prot) ==
    LET old_path == join(root, file)
        new_path == join(dir_path, file)
    IN  IF ~exists(st.fs, new_path) THEN shutil_move(st, old_path, new_path, prot)
        ELSE IF duplicate_suffix
        THEN \* new_path = get_unique_filename(new_path): computed, not used
             st
        ELSE shutil_move(Report(st, <<"already exists", new_path>>), old_path, new_path, prot)

RECURSIVE mftt_files(_, _, _, _, _, _)
mftt_files(st, dir_path, root, files, duplicate_suffix, prot) ==
    IF files = <<>> \/ st.raised # "none" THEN st
    ELSE mftt_files(mftt_file(st, dir_path, root, Head(files), duplicate_suffix, prot),
                    dir_path, root, Tail(files), duplicate_suffix, prot)

\* "for root, dirs, files in os.walk(dir_path)": the files of a directory
\* are listed when the walk reaches it
RECURSIVE mftt_walk(_, _, _, _, _, _)
mftt_walk(st, dir_path, roots, duplicate_suffix, ord, prot) ==
    IF roots = <<>> \/ st.raised # "none" THEN st
    ELSE LET root == Head(roots)
             st1 == IF root = dir_path THEN st
                    ELSE mftt_files(st, dir_path, root, Listing(FilesIn(st.fs, root), ord),
                                    duplicate_suffix, prot)
         IN  mftt_walk(st1, dir_path, Tail(roots), duplicate_suffix, ord, prot)

RECURSIVE mftt_rmtrees(_, _, _, _, _)
mftt_rmtrees(st, dir_path, dirs0, ord, prot) ==
    IF dirs0 = <<>> \/ st.raised # "none" THEN st
    ELSE mftt_rmtrees(rmtree(st, join(dir_path, Head(dirs0)), ord, prot),
                      dir_path, Tail(dirs0), ord, prot)

move_files_to_top(f, dir_path, del_empty_dirs, duplicate_suffix, ord, prot) ==
    IF ~is_dir(f, dir_path)
    THEN \* os.walk yields nothing; os.listdir raises
         Raise(Start(f), IF exists(f, dir_path) THEN "NotADirectoryError" ELSE "FileNotFoundError")
    ELSE LET walked == mftt_walk(Start(f), dir_path, walk_dirs(f, dir_path, ord),
                                 duplicate_suffix, ord, prot)
             dirs0 == Listing(DirsIn(walked.fs, dir_path), ord)
         IN  IF walked.raised # "none" \/ ~del_empty_dirs THEN walked
             ELSE mftt_rmtrees(walked, dir_path, dirs0, ord, prot)

----------------------------------------------------------------------------
(* safe_rename *)

\* "try: ... except Exception as e: print(f"Error: {e}")" around a primitive
Caught(st) ==
    IF st.raised = "none" THEN st
    ELSE Report([st EXCEPT !.raised = "none"], <<"Error", st.raised>>)

\* the body of "for file in files" for one file of directory root
sr_file(st, new_fpath, root, file, find_unique_filename, prot) ==
    LET old_path == join(root, file)
        new_path == join(new_fpath, file)
    IN  IF ~exists(st.fs, new_path)
        THEN Caught(os_rename_file(st, old_path, new_path, prot))
        ELSE IF find_unique_filename
        THEN Caught(os_rename_file(st, old_path, get_unique_filename(st.fs, new_path), prot))
        ELSE Report(st, <<"already exists", new_path>>)

RECURSIVE sr_files(_, _, _, _, _, _)
sr_files(st, new_fpath, root, files, find_unique_filename, prot) ==
    IF files = <<>> THEN st
    ELSE sr_files(sr_file(st, new_fpath, root, Head(files), find_unique_filename, prot),
                  new_fpath, root, Tail(files), find_unique_filename, prot)

\* "for root, dirs, files in os.walk(old_fpath)"
RECURSIVE sr_walk(_, _, _, _, _, _)
sr_walk(st, new_fpath, roots, find_unique_filename, ord, prot) ==
    IF roots = <<>> THEN st
    ELSE sr_walk(sr_files(st, new_fpath, Head(roots),
                          Listing(FilesIn(st.fs, Head(roots)), ord), find_unique_filename, prot),
                 new_fpath, Tail(roots), find_unique_filename, ord, prot)

\* "for dir in dirs: safe_rename(os.path.join(old_fpath, dir), ...)": dirs is
\* what the walk's last step left in it, and os.path.join returns a str, which
\* has no is_dir
sr_dirs(st, dirs) ==
    IF dirs = <<>> THEN st ELSE Raise(st, "AttributeError")

safe_rename(f, old_fpath, new_fpath, find_unique_filename, ord, prot) ==
    IF is_dir(f, old_fpath)
    THEN IF ~exists(f, new_fpath)
         THEN Caught(os_rename_dir(Start(f), old_fpath, new_fpath, prot))
         ELSE LET roots == walk_dirs(f, old_fpath, ord)
                  walked == sr_walk(Start(f), new_fpath, roots, find_unique_filename, ord, prot)
                  dirs == Listing(DirsIn(walked.fs, roots[Len(roots)]), ord)
              IN  sr_dirs(walked, dirs)
    ELSE Start(f)

\* safe_rename of src/jtoolbox/files.py, for a source that is no directory
safe_rename_legacy(f, old_fpath, new_fpath, prot) ==
    shutil_move(Start(f), old_fpath, get_unique_filename(f, new_fpath), prot)

----------------------------------------------------------------------------
(* The calls *)

Protections(f) == {{}} \cup {{p} : p \in DOMAIN f.files}

Init ==
    /\ fs \in Trees
    /\ protected \in Protections(fs)
    /\ order \in Perms(NamesOf(fs))
    /\ pre = fs
    /\ call = NoCall
    /\ ret = NoRet
    /\ InitLog

\* the paths a call is given
ArgPaths == CandFiles \cup (DirPaths \ {<<>>})

Returned(st) ==
    [value |-> <<>>, raised |-> st.raised, printed |-> st.printed, failed |-> st.failed]

MoveFilesToTop ==
    /\ call = NoCall
    /\ \E dir_path \in DirPaths, del_empty_dirs \in BOOLEAN, duplicate_suffix \in BOOLEAN :
          LET st == move_files_to_top(fs, dir_path, del_empty_dirs, duplicate_suffix,
                                      order, protected)
          IN  /\ call' = [op |-> "move_files_to_top", dir_path |-> dir_path,
                          del_empty_dirs |-> del_empty_dirs,
                          duplicate_suffix |-> duplicate_suffix]
              /\ fs' = st.fs
              /\ ret' = Returned(st)
    /\ pre' = fs
    /\ UNCHANGED <<protected, order, logvars>>

SafeRename ==
    /\ call = NoCall
    /\ \E old_fpath \in ArgPaths, new_fpath \in ArgPaths, find_unique_filename \in BOOLEAN :
          LET st == safe_rename(fs, old_fpath, new_fpath, find_unique_filename,
                                order, protected)
          IN  /\ call' = [op |-> "safe_rename", old_fpath |-> old_fpath,
                          new_fpath |-> new_fpath,
                          find_unique_filename |-> find_unique_filename]
              /\ fs' = st.fs
              /\ ret' = Returned(st)
    /\ pre' = fs
    /\ UNCHANGED <<protected, order, logvars>>

SafeRenameLegacy ==
    /\ call = NoCall
    /\ \E old_fpath \in ArgPaths, new_fpath \in ArgPaths :
          /\ ~is_dir(fs, old_fpath)
          /\ LET st == safe_rename_legacy(fs, old_fpath, new_fpath, protected)
             IN  /\ call' = [op |-> "safe_rename_legacy", old_fpath |-> old_fpath,
                             new_fpath |-> new_fpath]
                 /\ fs' = st.fs
                 /\ ret' = Returned(st)
    /\ pre' = fs
    /\ UNCHANGED <<protected, order, logvars>>

Next ==
    \/ GetUniqueFilename
    \/ MoveFilesToTop
    \/ SafeRename
    \/ SafeRenameLegacy

Spec == Init /\ [][Next]_vars

----------------------------------------------------------------------------
(* Claims about move_files_to_top and safe_rename *)

\* where the file of content c is in f
Where(f, c) == {q \in DOMAIN f.files : f.files[q] = c}

\* the files of f in the subdirectories of dir_path, at any depth
NestedFiles(f, dir_path) ==
    {p \in DOMAIN f.files : Below(dir_path, p) /\ Parent(p) # dir_path}

Printed(line) == \E i \in 1..Len(ret.printed) : ret.printed[i] = line

\* C1: under the skip policy (duplicate_suffix=False) a file of a subdirectory
\* whose name is taken at the top level is reported, stays where it was, and
\* the top-level file of that name keeps its content.
FlattenSkipNeverOverwrites ==
    (/\ call.op = "move_files_to_top"
     /\ ~call.duplicate_suffix
     /\ ~call.del_empty_dirs
     /\ is_dir(pre, call.dir_path)
     /\ protected = {}) =>
        \A p \in NestedFiles(pre, call.dir_path) :
            LET top == join(call.dir_path, Base(p))
            IN  exists(pre, top) =>
                    /\ Printed(<<"already exists", top>>)
                    /\ p \in DOMAIN fs.files /\ fs.files[p] = pre.files[p]
                    /\ top \in DOMAIN pre.files =>
                          (top \in DOMAIN fs.files /\ fs.files[top] = pre.files[top])

\* C2: under the auto-suffix policy (duplicate_suffix=True), with either value
\* of del_empty_dirs, every file that was below root is at the top level of
\* root afterwards, under some name.
FlattenAutoSuffixKeepsEveryFile ==
    (/\ call.op = "move_files_to_top"
     /\ call.duplicate_suffix
     /\ is_dir(pre, call.dir_path)
     /\ protected = {}) =>
        \A p \in {q \in DOMAIN pre.files : Below(call.dir_path, q)} :
            \E q \in Where(fs, pre.files[p]) : Parent(q) = call.dir_path

\* C5: safe_rename of a regular file moves it: to new_fpath when that does
\* not exist, and with find_unique_filename to the unique name derived from
\* new_fpath when it does, the file already at new_fpath unchanged.
SafeRenameMovesAFile ==
    (/\ call.op = "safe_rename"
     /\ call.old_fpath \in DOMAIN pre.files
     /\ call.old_fpath # call.new_fpath
     /\ is_dir(pre, Parent(call.new_fpath))
     /\ protected = {}) =>
        LET old == call.old_fpath
            new == call.new_fpath
            unique == get_unique_filename(pre, new)
        IN  /\ ~exists(pre, new) =>
                  /\ new \in DOMAIN fs.files /\ fs.files[new] = pre.files[old]
                  /\ ~exists(fs, old)
            /\ (exists(pre, new) /\ call.find_unique_filename) =>
                  /\ unique \in DOMAIN fs.files /\ fs.files[unique] = pre.files[old]
                  /\ new \in DOMAIN pre.files =>
                        (new \in DOMAIN fs.files /\ fs.files[new] = pre.files[new])

\* C6: safe_rename of a source that does not exist raises a not-found error
\* and leaves the filesystem unchanged.
SafeRenameMissingSourceRaises ==
    (call.op = "safe_rename" /\ ~exists(pre, call.old_fpath)) =>
        (ret.raised = "FileNotFoundError" /\ fs = pre)

\* C7: safe_rename of a directory onto an existing directory with the
\* auto-suffix policy merges entry by entry: a file that was at
\* source/<d>/<name> is in destination/<d>/ afterwards, no file remains under
\* source, and the files that were under destination are unchanged.
SafeRenameMergesTrees ==
    (/\ call.op = "safe_rename"
     /\ call.find_unique_filename
     /\ is_dir(pre, call.old_fpath)
     /\ is_dir(pre, call.new_fpath)
     /\ ~IsPrefix(call.old_fpath, call.new_fpath)
     /\ ~IsPrefix(call.new_fpath, call.old_fpath)
     /\ protected = {}) =>
        LET old == call.old_fpath
            new == call.new_fpath
        IN  /\ \A p \in {q \in DOMAIN pre.files : Below(old, q)} :
                  \E q \in Where(fs, pre.files[p]) : Parent(q) = Rebase(Parent(p), old, new)
            /\ ~\E q \in DOMAIN fs.files : Below(old, q)
            /\ \A p \in {q \in DOMAIN pre.files : Below(new, q)} :
                  p \in DOMAIN fs.files /\ fs.files[p] = pre.files[p]

\* the call of the last step, run on the same tree with nothing protected
Unhindered ==
    IF call.op = "move_files_to_top"
    THEN move_files_to_top(pre, call.dir_path, call.del_empty_dirs, call.duplicate_suffix,
                           order, {})
    ELSE safe_rename(pre, call.old_fpath, call.new_fpath, call.find_unique_filename,
                     order, {})

\* C8: in safe_rename on a directory and in move_files_to_top, when moving
\* one entry fails with permission denied, the failure is reported, the call
\* does not raise, and every other entry the call would have moved is moved.
BulkCallsIsolateFailures ==
    (/\ call.op \in {"move_files_to_top", "safe_rename"}
     /\ call.op = "move_files_to_top" => (is_dir(pre, call.dir_path) /\ ~call.del_empty_dirs)
     /\ call.op = "safe_rename" => is_dir(pre, call.old_fpath)
     /\ ret.failed # {}) =>
        /\ ret.raised = "none"
        /\ Printed(<<"Error", "PermissionError">>)
        /\ \A p \in (DOMAIN pre.files) \ protected :
              p \notin DOMAIN Unhindered.fs.files => p \notin DOMAIN fs.files

----------------------------------------------------------------------------
(* h5_logger.  The log file is a map from keys to entries: a dataset        *)
(* (created by create_dataset with an unlimited leading dimension, a        *)
(* sequence of records) or a scalar (created by file[key] = value).         *)

Keys == {"k1", "k2"}

Values == {1, 2}

\* the longest dataset of the model
MaxLen == 2

Dataset(records) == [kind |-> "dataset", data |-> records]

Scalar(value) == [kind |-> "scalar", data |-> value]

\* the names utils.py imports (lines 1 to 7)
utils_imports == {"contextlib", "datetime", "logging", "time", "h5py", "joblib"}

\* the outcome of a logger call; blocked counts the BlockingIOErrors met in
\* it and retries the retries made, for the claims to refer to
Ok(s) == [store |-> s, raised |-> "none", value |-> <<>>, blocked |-> 0, retries |-> 0]

Fail(s, e) == [store |-> s, raised |-> e, value |-> <<>>, blocked |-> 0, retries |-> 0]

\* where another writer's lock may stop a statement of log_value
Points == {"none", "create", "resize", "write"}

\* the lock a log_value call meets: on opening the file, at a statement of
\* the first attempt, at a statement of the retry
Locks == [open : BOOLEAN, first : Points, retry : Points]

\* a statement stopped by the lock
Blocked(s) == [Fail(s, "BlockingIOError") EXCEPT !.blocked = 1]

\* "except BlockingIOError: logging.error(...); time.sleep(1); <again>"
Retried(first, again) ==
    [again EXCEPT !.blocked = first.blocked + again.blocked, !.retries = 1]

Put(s, key, entry) == [k \in (DOMAIN s) \cup {key} |-> IF k = key THEN entry ELSE s[k]]

Del(s, key) == [k \in (DOMAIN s) \ {key} |-> s[k]]

\* check_if_in_h5(path, key) on a file that exists: os.path.exists is looked
\* up in a module that does not import os
check_if_in_h5(s, key) ==
    IF "os" \notin utils_imports THEN [Fail(s, "NameError") EXCEPT !.value = FALSE]
    ELSE [Ok(s) EXCEPT !.value = (key \in DOMAIN s)]

\* file.create_dataset(dataset_name, data=data[None], maxshape=...)
create_dataset(s, dataset_name, data, at) ==
    IF at = "create" THEN Blocked(s)
    ELSE Ok(Put(s, dataset_name, Dataset(<<data>>)))

\* _init_dataset: create_dataset, and once more after a BlockingIOError
init_dataset(s, dataset_name, data, lock) ==
    LET first == create_dataset(s, dataset_name, data, lock.first)
    IN  IF first.raised = "BlockingIOError"
        THEN Retried(first, create_dataset(first.store, dataset_name, data, lock.retry))
        ELSE first

\* file[dataset_name].resize((shape[0] + 1, ...)); file[dataset_name][-1] = data.
\* A scalar has shape (), and shape[0] raises IndexError.  Stopped at the
\* write, the dataset stays resized, its new record unwritten (0).
resize_and_write(s, dataset_name, data, at) ==
    IF s[dataset_name].kind = "scalar" THEN Fail(s, "IndexError")
    ELSE IF at = "resize" THEN Blocked(s)
    ELSE LET resized == Append(s[dataset_name].data, 0)
         IN  IF at = "write" THEN Blocked(Put(s, dataset_name, Dataset(resized)))
             ELSE Ok(Put(s, dataset_name, Dataset([resized EXCEPT ![Len(resized)] = data])))

\* a slip: the last record is overwritten, the dataset is not resized
append_to_dataset_unresized(s, dataset_name, data, lock) ==
    IF s[dataset_name].kind = "scalar" THEN Fail(s, "IndexError")
    ELSE LET records == s[dataset_name].data
         IN  Ok(Put(s, dataset_name, Dataset([records EXCEPT ![Len(records)] = data])))

\* _append_to_dataset: resize and write, and once more after a BlockingIOError
append_to_dataset(s, dataset_name, data, lock) ==
    LET first == resize_and_write(s, dataset_name, data, lock.first)
    IN  IF first.raised = "BlockingIOError"
        THEN Retried(first, resize_and_write(first.store, dataset_name, data, lock.retry))
        ELSE first

\* log_value(data_key, data_value) with file=None: h5py.File(self.filename, "a")
\* is opened outside any try
log_value(s, data_key, data_value, lock) ==
    IF lock.open THEN Blocked(s)
    ELSE IF data_key \notin DOMAIN s THEN init_dataset(s, data_key, data_value, lock)
    ELSE append_to_dataset(s, data_key, data_value, lock)

\* log_attribute(key, value, replace): line 113 builds the AttributeError and
\* does not raise it
log_attribute(s, key, value, replace) ==
    LET found == check_if_in_h5(s, key)
    IN  IF found.raised # "none" THEN Fail(s, found.raised)
        ELSE IF found.value
        THEN IF ~replace THEN Ok(s) ELSE Ok(Put(Del(s, key), key, Scalar(value)))
        ELSE Ok(Put(s, key, Scalar(value)))

\* get_dataset(dataset_name): file[dataset_name][:]
get_dataset(s, dataset_name) ==
    IF dataset_name \notin DOMAIN s THEN Fail(s, "KeyError")
    ELSE [Ok(s) EXCEPT !.value = s[dataset_name].data]

\* rm_key(key): del file[key]
rm_key(s, key) ==
    IF key \notin DOMAIN s THEN Fail(s, "KeyError") ELSE Ok(Del(s, key))

\* the files a logger may be opened on (existing=True)
Entries ==
    {Scalar(v) : v \in Values} \cup
    {Dataset(r) : r \in UNION {[1..n -> Values] : n \in 1..(MaxLen - 1)}}

Stores == UNION {[K -> Entries] : K \in SUBSET Keys}

EmptyTree == [dirs |-> {<<>>}, files |-> <<>>]

InitLogger ==
    /\ fs = EmptyTree
    /\ protected = {}
    /\ order = <<>>
    /\ pre = fs
    /\ call = NoCall
    /\ ret = NoRet
    /\ store \in Stores
    /\ logged = <<>>

LogRet(r) ==
    [value |-> r.value, raised |-> r.raised, printed |-> <<>>, failed |-> {},
     blocked |-> r.blocked, retries |-> r.retries]

\* logged follows a key through the calls that meet no lock
LogValue ==
    \E data_key \in Keys, data_value \in Values, lock \in Locks :
        LET r == log_value(store, data_key, data_value, lock)
        IN  /\ data_key \in DOMAIN store /\ store[data_key].kind = "dataset" =>
                  Len(store[data_key].data) < MaxLen
            /\ call' = [op |-> "log_value", key |-> data_key, value |-> data_value,
                        lock |-> lock, before |-> store]
            /\ store' = r.store
            /\ ret' = LogRet(r)
            /\ logged' = IF r.blocked > 0 THEN Del(logged, data_key)
                         ELSE IF r.raised # "none" THEN logged
                         ELSE IF data_key \notin DOMAIN store
                         THEN Put(logged, data_key, <<data_value>>)
                         ELSE IF data_key \in DOMAIN logged
                         THEN Put(logged, data_key, Append(logged[data_key], data_value))
                         ELSE logged
            /\ UNCHANGED <<fs, protected, order, pre>>

LogAttribute ==
    \E key \in Keys, value \in Values, replace \in BOOLEAN :
        LET r == log_attribute(store, key, value, replace)
        IN  /\ call' = [op |-> "log_attribute", key |-> key, value |-> value,
                        replace |-> replace, before |-> store]
            /\ store' = r.store
            /\ ret' = LogRet(r)
            /\ logged' = IF r.store = store THEN logged ELSE Del(logged, key)
            /\ UNCHANGED <<fs, protected, order, pre>>

GetDataset ==
    \E dataset_name \in Keys :
        LET r == get_dataset(store, dataset_name)
        IN  /\ call' = [op |-> "get_dataset", key |-> dataset_name, before |-> store]
            /\ ret' = LogRet(r)
            /\ UNCHANGED <<store, logged, fs, protected, order, pre>>

RmKey ==
    \E key \in Keys :
        LET r == rm_key(store, key)
        IN  /\ call' = [op |-> "rm_key", key |-> key, before |-> store]
            /\ store' = r.store
            /\ ret' = LogRet(r)
            /\ logged' = Del(logged, key)
            /\ UNCHANGED <<fs, protected, order, pre>>

NextLogger ==
    \/ LogValue
    \/ LogAttribute
    \/ GetDataset
    \/ RmKey

SpecLogger == InitLogger /\ [][NextLogger]_vars

----------------------------------------------------------------------------
(* C9, C10 *)

\* C9: on an existing key log_attribute(key, value, replace=False) raises the
\* already-exists error and leaves the stored value unchanged; with
\* replace=True it succeeds and the stored value is the new value; on an
\* absent key it stores the value.
LogAttributeSetsOnce ==
    call.op = "log_attribute" =>
        LET key == call.key
            before == call.before
        IN  /\ (key \in DOMAIN before /\ ~call.replace) =>
                  (ret.raised = "AttributeError" /\ store = before)
            /\ (key \in DOMAIN before /\ call.replace) =>
                  (ret.raised = "none" /\ key \in DOMAIN store
                   /\ store[key] = Scalar(call.value))
            /\ key \notin DOMAIN before =>
                  (key \in DOMAIN store /\ store[key] = Scalar(call.value))

----------------------------------------------------------------------------
(* C11 *)

\* the records of a key in a store, none when the key is absent
Records(s, key) == IF key \in DOMAIN s THEN s[key].data ELSE <<>>

\* C11: a log_value call that meets the lock at any step, opening the file
\* included, retries exactly once; if the retry goes through the call returns
\* normally with the value as exactly one new record, and if the retry meets
\* the lock too BlockingIOError propagates.
LogValueRetriesOnce ==
    (/\ call.op = "log_value"
     /\ ret.blocked >= 1
     /\ call.key \in DOMAIN call.before => call.before[call.key].kind = "dataset") =>
        /\ ret.retries = 1
        /\ ret.blocked = 1 =>
              /\ ret.raised = "none"
              /\ store = Put(call.before, call.key,
                             Dataset(Append(Records(call.before, call.key), call.value)))
        /\ ret.blocked = 2 => ret.raised = "BlockingIOError"

====
